---------------------------- MODULE Spec2Model ----------------------------
(***************************************************************************)
(* Model of the qrgates order route (src/unnamed/part_001: POST and GET of *)
(* the orders API), its Prisma schema (src/unnamed/part_000) and the       *)
(* organizer's event edit form (src/components/organizer/                  *)
(* edit-event-page.tsx).                                                   *)
(*                                                                         *)
(* Every `await` of POST and of GET is a scheduling point: one action per  *)
(* awaited call, together with the synchronous code that follows it up to  *)
(* the next await.  Concurrent requests interleave at these points.        *)
(*                                                                         *)
(* The venue gate (verification actions on tickets) has no handler in the  *)
(* sources at hand: its action follows section 4.4 of the specification,   *)
(* over the tables and the referential actions of the schema.              *)
(*                                                                         *)
(* Specifications: Spec (purchases and event edits), SpecPurchases,        *)
(* SpecSequential (purchases one at a time), SpecListing (GET over a fixed *)
(* table), SpecShop (one listing beside one purchase), SpecVerification   *)
(* (the gate after one purchase).                                          *)
(***************************************************************************)
EXTENDS Integers, Sequences, FiniteSets, TLC

\* ------------------------------------------------------------------ bounds
NumReq == 2        \* purchase requests that may be in flight together
MaxItems == 2      \* line items of one cart
MaxQty == 2        \* largest quantity a line item asks for
MaxLines == 2      \* line items of all the carts together
MaxTime == 1       \* largest value Date.now() returns
NumGet == 2        \* listing requests that may be in flight together
MaxListed == 2     \* orders in the table the listings read
MaxLogs == 2       \* VerificationLog rows ever created

\* Each request is one call of POST, from its arrival ("idle") to its
\* response ("done"); the requests run as parallel tasks.
Requests == 1..NumReq

\* ------------------------------------------------------- the stored world
Users == {"u1", "u2"}
EventIds == {"e1", "e2"}
TicketTypeIds == {"t1", "t2"}

\* TicketType rows (schema: id, name, price, quantity, eventId); soldCount is
\* the mutable column and is a variable.
TicketType ==
  [t \in TicketTypeIds |->
     CASE t = "t1" -> [id |-> "t1", name |-> "VIP", price |-> 5, quantity |-> 2, eventId |-> "e1"]
       [] OTHER    -> [id |-> "t2", name |-> "Standard", price |-> 2, quantity |-> 1, eventId |-> "e1"]]

\* event.ticketTypes as returned by `include: { ticketTypes: true }`: event
\* e1 sells two ticket types, event e2 has none yet
EventTicketTypes(e) == IF e = "e1" THEN <<"t1", "t2">> ELSE <<>>

RECURSIVE SumQuantity(_)
SumQuantity(s) ==
  IF s = <<>> THEN 0 ELSE TicketType[Head(s)].quantity + SumQuantity(Tail(s))

\* the security officers, each bound to one event
SecurityOfficerIds == {"o1", "o2"}

SecurityOfficer ==
  [o \in SecurityOfficerIds |->
     [id |-> o, eventId |-> IF o = "o1" THEN "e1" ELSE "e2"]]

VARIABLES
  soldCount,     \* TicketType.soldCount, per ticket type
  soldTickets,   \* Event.soldTickets, per event
  totalTickets,  \* Event.totalTickets, per event
  orders,        \* the Order table, in creation order
  tickets,       \* the Ticket table, in creation order
  now,           \* the last value Date.now() returned
  credit,        \* history: the increment applied to soldCount for each order
  req,           \* per request: its position in POST and its locals
  get,           \* per listing: its position in GET and its locals
  securityOfficers,  \* the SecurityOfficer table
  verificationLogs,  \* the VerificationLog table, in creation order
  nextLogId,     \* the number of VerificationLog rows ever created
  scan           \* the outcome of the last verification action

vars == <<soldCount, soldTickets, totalTickets, orders, tickets, now, credit,
          req, get, securityOfficers, verificationLogs, nextLogId, scan>>
dbVars == <<soldCount, soldTickets, totalTickets, orders, tickets, credit>>
gateVars == <<securityOfficers, verificationLogs, nextLogId, scan>>

NoResponse == [status |-> 0, error |-> "", orders |-> <<>>]

InitReq ==
  [pc |-> "idle", session |-> "", n |-> 0, idx |-> 0,
   eventId |-> "", quantity |-> 0, ticketTypeObj |-> "", price |-> {},
   orderTotal |-> 0,
   order |-> 0, i |-> 0, ticketsToCreate |-> <<>>, createdOrders |-> <<>>,
   resp |-> NoResponse, error |-> ""]

\* a listing request before it arrives
Listings == 1..NumGet

NoListing == [status |-> 0, error |-> "", orders |-> <<>>, pagination |-> <<>>]

InitGet ==
  [pc |-> "idle", session |-> "", limit |-> 0, page |-> 0, status |-> "",
   orders |-> <<>>, resp |-> NoListing]

\* no verification action has answered yet
NoScan == [status |-> 0, error |-> "", securityOfficerId |-> "", ticketId |-> 0,
           action |-> ""]

Init ==
  /\ soldCount = [t \in TicketTypeIds |-> 0]
  /\ soldTickets = [e \in EventIds |-> 0]
  /\ totalTickets = [e \in EventIds |->
                       IF EventTicketTypes(e) = <<>> THEN 1
                       ELSE SumQuantity(EventTicketTypes(e))]
  /\ orders = <<>>
  /\ tickets = <<>>
  /\ now = 0
  /\ credit = [o \in 1..MaxLines |-> 0]
  /\ req = [r \in Requests |-> InitReq]
  /\ get = [g \in Listings |-> InitGet]
  /\ securityOfficers = SecurityOfficer
  /\ verificationLogs = <<>>
  /\ nextLogId = 0
  /\ scan = NoScan

\* `return NextResponse.json(body, {status})` in a request whose locals are
\* `rec`: the request is over.  The working locals (price, orderTotal, i,
\* ticketsToCreate) are dropped; what identifies the request and the line
\* item it ended in is kept.
Respond(rec, status, error, os) ==
  [rec EXCEPT !.pc = "done", !.price = {}, !.orderTotal = 0, !.i = 0,
              !.ticketsToCreate = <<>>,
              !.resp = [status |-> status, error |-> error, orders |-> os]]

\* the catch block: whatever was thrown, the caller gets the generic 500;
\* `error` is the caught error, named after the call that threw it
Catch(rec, thrownBy) ==
  [Respond(rec, 500, "Failed to create order", <<>>) EXCEPT !.error = thrownBy]

\* ------------------------------------------------------ the request body
\* A line item of the cart.  A missing field is the empty string (falsy in
\* the code, as undefined is) or, for the numbers, the empty set.
ItemEventIds == EventIds \cup {"", "eX"}
ItemTicketTypeIds == TicketTypeIds \cup {"", "tX"}
ItemTicketTypeNames == {"", "VIP", "Gold"}
ItemQuantities == {{}} \cup {{q} : q \in -1..MaxQty}
ItemPrices == {{}, {0}, {3}}

Items ==
  [eventId : ItemEventIds, ticketTypeId : ItemTicketTypeIds,
   ticketType : ItemTicketTypeNames, quantity : ItemQuantities,
   price : ItemPrices]

\* the value of an optional number, `dflt` when it is missing
ValueOr(opt, dflt) == IF opt = {} THEN dflt ELSE CHOOSE v \in opt : TRUE

\* const { quantity = 1 } = item
Quantity(item) == ValueOr(item.quantity, 1)

\* Array.prototype.find over event.ticketTypes: the first match, "" if none
RECURSIVE FindById(_, _)
FindById(types, id) ==
  IF types = <<>> THEN ""
  ELSE IF TicketType[Head(types)].id = id THEN Head(types)
  ELSE FindById(Tail(types), id)

RECURSIVE FindByName(_, _)
FindByName(types, name) ==
  IF types = <<>> THEN ""
  ELSE IF TicketType[Head(types)].name = name THEN Head(types)
  ELSE FindByName(Tail(types), name)

\* (mutant) a ticketTypeId is looked up among the ticket types of all events
ResolveTicketType_AnyEvent(types, item) ==
  IF item.ticketTypeId # ""
    THEN FindById(<<"t1", "t2">>, item.ticketTypeId)
  ELSE IF item.ticketType # "" THEN FindByName(types, item.ticketType)
  ELSE IF types = <<>> THEN "" ELSE types[1]

\* the ticketTypeObj of a line item: by id, else by name, else the first
ResolveTicketType(types, item) ==
  IF item.ticketTypeId # "" THEN FindById(types, item.ticketTypeId)
  ELSE IF item.ticketType # "" THEN FindByName(types, item.ticketType)
  ELSE IF types = <<>> THEN "" ELSE types[1]

\* (mutant) the check compares with the capacity and forgets what was sold
Insufficient_IgnoresSold(t, quantity) == TicketType[t].quantity < quantity

\* availableTickets < quantity, on the row as findUnique returned it
Insufficient(t, quantity) == TicketType[t].quantity - soldCount[t] < quantity

\* price ? price * quantity : ticketTypeObj.price * quantity
OrderTotal(item, t) ==
  IF ValueOr(item.price, 0) # 0
    THEN ValueOr(item.price, 0) * Quantity(item)
    ELSE TicketType[t].price * Quantity(item)

\* ---------------------------------------------------------------- POST
\* the line items of the carts received so far (Receive admits a cart only
\* while the carts together stay within MaxLines, so MaxLines also bounds the
\* Order rows and their ids)
RECURSIVE Lines(_)
Lines(S) ==
  IF S = {} THEN 0
  ELSE LET x == CHOOSE x \in S : TRUE IN req[x].n + Lines(S \ {x})

\* (mutant) the session is not checked: a request without one goes on
Receive_NoSessionCheck(r) ==
  /\ req[r].pc = "idle"
  /\ \E session \in Users \cup {""}, isArray \in BOOLEAN, n \in 0..MaxItems :
       /\ (~isArray => n = 0)
       /\ n + Lines(Requests) <= MaxLines
       /\ req' = [req EXCEPT ![r] =
            IF ~isArray \/ n = 0
              THEN Respond([req[r] EXCEPT !.session = session],
                           400, "No items in order", <<>>)
            ELSE [req[r] EXCEPT !.pc = "item", !.session = session, !.n = n]]
  /\ UNCHANGED <<dbVars, now>>

\* getServerSession, request.json() and the checks on the body
Receive(r) ==
  /\ req[r].pc = "idle"
  /\ \E session \in Users \cup {""}, isArray \in BOOLEAN, n \in 0..MaxItems :
       /\ (~isArray => n = 0)
       /\ n + Lines(Requests) <= MaxLines
       /\ req' = [req EXCEPT ![r] =
            IF session = "" THEN Respond(req[r], 401, "Unauthorized", <<>>)
            ELSE IF ~isArray \/ n = 0
              THEN Respond([req[r] EXCEPT !.session = session],
                           400, "No items in order", <<>>)
            ELSE [req[r] EXCEPT !.pc = "item", !.session = session, !.n = n]]
  /\ UNCHANGED <<dbVars, now>>

\* the locals of one iteration of `for (const item of items)`
Iteration(r, item, t) ==
  [req[r] EXCEPT !.eventId = item.eventId, !.quantity = Quantity(item),
                 !.ticketTypeObj = t, !.price = item.price, !.orderTotal = 0,
                 !.order = 0, !.i = 0, !.ticketsToCreate = <<>>]

\* the head of an iteration: the eventId check, prisma.event.findUnique, the
\* resolution of the ticket type, the availability check and the total
FindEvent(r) ==
  /\ req[r].pc = "item"
  /\ \E item \in Items, thrown \in BOOLEAN :
       LET types == EventTicketTypes(item.eventId)
           t == ResolveTicketType(types, item)
           it == Iteration(r, item, t)
       IN req' = [req EXCEPT ![r] =
            IF item.eventId = ""
              THEN Respond(it, 400, "Missing eventId in item", <<>>)
            ELSE IF thrown
              THEN Catch([it EXCEPT !.ticketTypeObj = ""], "event.findUnique")
            ELSE IF item.eventId \notin EventIds
              THEN Respond(it, 404, "Event not found", <<>>)
            ELSE IF item.ticketTypeId # "" /\ t = ""
              THEN Respond(it, 404, "Ticket type not found", <<>>)
            ELSE IF t = ""
              THEN Respond(it, 400, "No ticket types available for this event", <<>>)
            ELSE IF Insufficient(t, Quantity(item))
              THEN Respond(it, 400, "Not enough tickets available", <<>>)
            ELSE [it EXCEPT !.pc = "create", !.orderTotal = OrderTotal(item, t)]]
  /\ UNCHANGED <<dbVars, now>>

\* (mutant) the counters are incremented right after the Order is created
CreateOrder_IncrementFirst(r) ==
  /\ req[r].pc = "create"
  /\ \/ /\ LET id == Len(orders) + 1 IN
             /\ orders' = Append(orders,
                  [id |-> id, total |-> req[r].orderTotal, status |-> "PENDING",
                   userId |-> req[r].session, eventId |-> req[r].eventId])
             /\ req' = [req EXCEPT ![r] =
                  [@ EXCEPT !.order = id, !.price = {},
                            !.pc = "ticketType.update"]]
        /\ UNCHANGED <<soldCount, soldTickets, totalTickets, tickets, credit, now>>
     \/ /\ req' = [req EXCEPT ![r] = Catch(req[r], "order.create")]
        /\ UNCHANGED <<dbVars, now>>

\* prisma.order.create: a new row with a fresh id (@default(cuid())); the
\* item's price is not read again
CreateOrder(r) ==
  /\ req[r].pc = "create"
  /\ \/ /\ LET id == Len(orders) + 1 IN
             /\ orders' = Append(orders,
                  [id |-> id, total |-> req[r].orderTotal, status |-> "PENDING",
                   userId |-> req[r].session, eventId |-> req[r].eventId])
             /\ req' = [req EXCEPT ![r] =
                  [@ EXCEPT !.order = id, !.price = {},
                            !.pc = IF 0 < req[r].quantity THEN "mint" ELSE "persist"]]
        /\ UNCHANGED <<soldCount, soldTickets, totalTickets, tickets, credit, now>>
     \/ /\ req' = [req EXCEPT ![r] = Catch(req[r], "order.create")]
        /\ UNCHANGED <<dbVars, now>>

\* (mutant) every ticket of an order is numbered 1
QRPayload_SameNumber(eventId, userId, orderId, i, timestamp) ==
  [eventId |-> eventId, userId |-> userId, orderId |-> orderId,
   ticketNumber |-> 1, timestamp |-> timestamp]

\* the data handed to generateQRCode for ticket number i + 1
QRPayload(eventId, userId, orderId, i, timestamp) ==
  [eventId |-> eventId, userId |-> userId, orderId |-> orderId,
   ticketNumber |-> i + 1, timestamp |-> timestamp]

\* one turn of `for (let i = 0; i < quantity; i++)`: Date.now() returns the
\* time, which has not gone back since it was last read, and generateQRCode
\* resolves with the code of the payload, or rejects
Mint(r) ==
  /\ req[r].pc = "mint"
  /\ \/ \E timestamp \in now..MaxTime :
          LET t == TicketType[req[r].ticketTypeObj]
              row == [qrCode |-> QRPayload(req[r].eventId, req[r].session,
                                           req[r].order, req[r].i, timestamp),
                      type |-> t.name, price |-> t.price,
                      eventId |-> req[r].eventId, userId |-> req[r].session,
                      orderId |-> req[r].order, ticketTypeId |-> t.id]
          IN /\ now' = timestamp
             /\ req' = [req EXCEPT ![r] =
                  [@ EXCEPT !.ticketsToCreate = Append(@, row),
                            !.i = @ + 1,
                            !.pc = IF req[r].i + 1 < req[r].quantity
                                     THEN "mint" ELSE "persist"]]
     \/ /\ req' = [req EXCEPT ![r] = Catch(req[r], "generateQRCode")]
        /\ UNCHANGED now
  /\ UNCHANGED dbVars

\* the rows the Ticket table gets from `data`: each with a fresh id
\* (@default(cuid())) and isUsed @default(false)
TicketRowsOf(data, base) ==
  [k \in 1..Len(data) |->
     [id |-> base + k, isUsed |-> FALSE, qrCode |-> data[k].qrCode,
      type |-> data[k].type, price |-> data[k].price,
      eventId |-> data[k].eventId, userId |-> data[k].userId,
      orderId |-> data[k].orderId, ticketTypeId |-> data[k].ticketTypeId]]

\* prisma.ticket.createMany: all the rows in one statement, or none
CreateTickets(r) ==
  /\ req[r].pc = "persist"
  /\ \/ /\ tickets' = tickets \o TicketRowsOf(req[r].ticketsToCreate, Len(tickets))
        /\ req' = [req EXCEPT ![r] = [@ EXCEPT !.pc = "email"]]
     \/ /\ req' = [req EXCEPT ![r] = Catch(req[r], "ticket.createMany")]
        /\ UNCHANGED tickets
  /\ UNCHANGED <<soldCount, soldTickets, totalTickets, orders, credit, now>>

\* (mutant) a rejected sendTicketEmail is noted and the loop goes on with
\* the next line item
SendEmail_Continue(r) ==
  /\ req[r].pc = "email"
  /\ \/ req' = [req EXCEPT ![r] = [@ EXCEPT !.pc = "ticketType.update"]]
     \/ req' = [req EXCEPT ![r] =
          IF req[r].idx + 1 = req[r].n
            THEN Catch(req[r], "sendTicketEmail")
            ELSE [InitReq EXCEPT !.createdOrders = req[r].createdOrders,
                                 !.idx = req[r].idx + 1, !.pc = "item",
                                 !.session = req[r].session, !.n = req[r].n,
                                 !.error = "sendTicketEmail"]]
  /\ UNCHANGED <<dbVars, now>>

\* sendTicketEmail resolves or rejects
SendEmail(r) ==
  /\ req[r].pc = "email"
  /\ \/ req' = [req EXCEPT ![r] = [@ EXCEPT !.pc = "ticketType.update"]]
     \/ req' = [req EXCEPT ![r] = Catch(req[r], "sendTicketEmail")]
  /\ UNCHANGED <<dbVars, now>>

\* (mutant) a ticketType.update that succeeds without moving soldCount
TicketTypeUpdate_NoIncrement(r) ==
  /\ req[r].pc = "ticketType.update"
  /\ \/ /\ credit' = [credit EXCEPT ![req[r].order] = @ + req[r].quantity]
        /\ req' = [req EXCEPT ![r] = [@ EXCEPT !.pc = "event.update"]]
     \/ /\ req' = [req EXCEPT ![r] = Catch(req[r], "ticketType.update")]
        /\ UNCHANGED credit
  /\ UNCHANGED <<soldCount, soldTickets, totalTickets, orders, tickets, now>>

\* prisma.ticketType.update: soldCount { increment: quantity }
TicketTypeUpdate(r) ==
  /\ req[r].pc = "ticketType.update"
  /\ \/ /\ soldCount' = [soldCount EXCEPT
                           ![req[r].ticketTypeObj] = @ + req[r].quantity]
        /\ credit' = [credit EXCEPT ![req[r].order] = @ + req[r].quantity]
        /\ req' = [req EXCEPT ![r] = [@ EXCEPT !.pc = "event.update"]]
     \/ /\ req' = [req EXCEPT ![r] = Catch(req[r], "ticketType.update")]
        /\ UNCHANGED <<soldCount, credit>>
  /\ UNCHANGED <<soldTickets, totalTickets, orders, tickets, now>>

\* prisma.event.update: soldTickets { increment: quantity }; then
\* createdOrders.push(order), and the 201 response after the last item
EventUpdate(r) ==
  /\ req[r].pc = "event.update"
  /\ \/ /\ soldTickets' = [soldTickets EXCEPT
                             ![req[r].eventId] = @ + req[r].quantity]
        /\ LET created == Append(req[r].createdOrders, req[r].order) IN
             req' = [req EXCEPT ![r] =
               IF req[r].idx + 1 = req[r].n
                 THEN Respond([req[r] EXCEPT !.createdOrders = created,
                                             !.idx = @ + 1],
                              201, "", created)
                 ELSE [InitReq EXCEPT !.createdOrders = created,
                                      !.idx = req[r].idx + 1, !.pc = "item",
                                      !.session = req[r].session, !.n = req[r].n]]
     \/ /\ req' = [req EXCEPT ![r] = Catch(req[r], "event.update")]
        /\ UNCHANGED soldTickets
  /\ UNCHANGED <<soldCount, totalTickets, orders, tickets, credit, now>>

POST(r) ==
  /\ \/ Receive(r)
     \/ FindEvent(r)
     \/ CreateOrder(r)
     \/ Mint(r)
     \/ CreateTickets(r)
     \/ SendEmail(r)
     \/ TicketTypeUpdate(r)
     \/ EventUpdate(r)
  /\ UNCHANGED <<get, gateVars>>

\* ------------------------------------------------------------------ GET
\* enum OrderStatus, as far as the listings tell the values apart
OrderStatus == {"PENDING", "COMPLETED"}

\* the query string: limit and page may be missing, status may be missing
\* ("") or any string
QueryLimits == {{}, {1}}
QueryPages == {{}, {2}}
QueryStatuses == {"", "PENDING", "PAID"}

DefaultLimit == 10
DefaultPage == 1

\* (mutant) a filter that leaves the user out
Where_AnyUser(userId, status) ==
  SelectSeq(orders, LAMBDA o : status = "" \/ o.status = status)

\* where: { userId, ...(status && { status }) }
Where(userId, status) ==
  SelectSeq(orders, LAMBDA o : o.userId = userId
                               /\ (status = "" \/ o.status = status))

\* orderBy: { createdAt: "desc" }: the newest row first (rows are appended
\* to the table as they are created)
Desc(rows) == [k \in 1..Len(rows) |-> rows[Len(rows) + 1 - k]]

\* include: { tickets }
WithTickets(rows) ==
  [k \in 1..Len(rows) |->
     [id |-> rows[k].id, total |-> rows[k].total, status |-> rows[k].status,
      userId |-> rows[k].userId, eventId |-> rows[k].eventId,
      tickets |-> SelectSeq(tickets, LAMBDA t : t.orderId = rows[k].id)]]

\* take: limit, skip: (page - 1) * limit
TakeSkip(rows, limit, page) ==
  LET skip == (page - 1) * limit
      last == IF skip + limit < Len(rows) THEN skip + limit ELSE Len(rows)
  IN SubSeq(rows, skip + 1, last)

\* Math.ceil(total / limit), for limit > 0
Pages(total, limit) == (total + limit - 1) \div limit

\* the response of GET; the query values stay with the request
GetRespond(rec, status, error, os, pagination) ==
  [rec EXCEPT !.pc = "done", !.orders = <<>>,
              !.resp = [status |-> status, error |-> error, orders |-> os,
                        pagination |-> pagination]]

\* the catch block of GET
GetCatch(rec) == GetRespond(rec, 500, "Failed to fetch orders", <<>>, <<>>)

\* getServerSession, then the query string is parsed
GetReceive(g) ==
  /\ get[g].pc = "idle"
  /\ \E session \in Users \cup {""}, limit \in QueryLimits,
        page \in QueryPages, status \in QueryStatuses :
       get' = [get EXCEPT ![g] =
         IF session = ""
           THEN GetRespond(get[g], 401, "Unauthorized", <<>>, <<>>)
           ELSE [@ EXCEPT !.pc = "findMany", !.session = session,
                          !.limit = ValueOr(limit, DefaultLimit),
                          !.page = ValueOr(page, DefaultPage),
                          !.status = status]]

\* the orders of the filter in every order the rows can come in when no
\* orderBy is given
Shuffled(rows) ==
  {[k \in 1..Len(rows) |-> rows[f[k]]] :
     f \in {h \in [1..Len(rows) -> 1..Len(rows)] :
              \A a, b \in 1..Len(rows) : a # b => h[a] # h[b]}}

\* (mutant) a findMany without its orderBy
FindMany_Unordered(g) ==
  /\ get[g].pc = "findMany"
  /\ \/ /\ get[g].status \in OrderStatus \cup {""}
        /\ \E rows \in Shuffled(Where(get[g].session, get[g].status)) :
             get' = [get EXCEPT ![g] =
               [@ EXCEPT !.pc = "count",
                         !.orders = TakeSkip(WithTickets(rows),
                                             get[g].limit, get[g].page)]]
     \/ get' = [get EXCEPT ![g] = GetCatch(get[g])]

\* prisma.order.findMany: the page of the caller's orders, newest first; it
\* throws for a status that is no OrderStatus, and may throw anyway
FindMany(g) ==
  /\ get[g].pc = "findMany"
  /\ \/ /\ get[g].status \in OrderStatus \cup {""}
        /\ get' = [get EXCEPT ![g] =
             [@ EXCEPT !.pc = "count",
                       !.orders =
                         TakeSkip(WithTickets(Desc(Where(get[g].session,
                                                         get[g].status))),
                                  get[g].limit, get[g].page)]]
     \/ get' = [get EXCEPT ![g] = GetCatch(get[g])]

\* prisma.order.count, then the response
Count(g) ==
  /\ get[g].pc = "count"
  /\ \/ LET total == Len(Where(get[g].session, get[g].status)) IN
          get' = [get EXCEPT ![g] =
            GetRespond(get[g], 200, "", get[g].orders,
                       [page |-> get[g].page, limit |-> get[g].limit,
                        total |-> total,
                        pages |-> Pages(total, get[g].limit)])]
     \/ get' = [get EXCEPT ![g] = GetCatch(get[g])]

GET(g) ==
  /\ \/ GetReceive(g)
     \/ FindMany(g)
     \/ Count(g)
  /\ UNCHANGED <<dbVars, now, req, gateVars>>

\* --------------------------------------------------------- verification
\* VerificationLog.action
VerificationActions == {"SCANNED", "MARKED_USED", "ENTRY", "EXIT"}

\* the officer belongs to the event of the ticket
Authorized(o, k) == securityOfficers[o].eventId = tickets[k].eventId

\* the row a verification action writes
LogRow(o, k, action, details) ==
  [id |-> nextLogId + 1, ticketId |-> tickets[k].id, securityOfficerId |-> o,
   eventId |-> tickets[k].eventId, action |-> action, details |-> details]

\* (mutant) a verification action that skips the authorization check
Verify_Unchecked(o, k, action) ==
  /\ nextLogId < MaxLogs
  /\ verificationLogs' = Append(verificationLogs, LogRow(o, k, action, ""))
  /\ nextLogId' = nextLogId + 1
  /\ tickets' = IF action = "MARKED_USED"
                  THEN [tickets EXCEPT ![k].isUsed = TRUE] ELSE tickets
  /\ scan' = [status |-> 200, error |-> "", securityOfficerId |-> o,
              ticketId |-> tickets[k].id, action |-> action]
  /\ UNCHANGED securityOfficers

\* officer o asks for `action` on the ticket in row k of the Ticket table
\* (the ticket of the scanned credential).  SCANNED is always permitted; the
\* other actions only to an officer of the ticket's event.  A permitted
\* action appends one log row, and MARKED_USED sets isUsed; a refused one
\* answers Forbidden, and whether the refusal is logged is left open.
Verify(o, k, action) ==
  /\ nextLogId < MaxLogs
  /\ IF action = "SCANNED" \/ Authorized(o, k)
       THEN /\ verificationLogs' =
                 Append(verificationLogs, LogRow(o, k, action, ""))
            /\ nextLogId' = nextLogId + 1
            /\ tickets' = IF action = "MARKED_USED"
                            THEN [tickets EXCEPT ![k].isUsed = TRUE]
                            ELSE tickets
            /\ scan' = [status |-> 200, error |-> "", securityOfficerId |-> o,
                        ticketId |-> tickets[k].id, action |-> action]
       ELSE /\ \/ /\ verificationLogs' =
                       Append(verificationLogs, LogRow(o, k, action, "denied"))
                  /\ nextLogId' = nextLogId + 1
               \/ UNCHANGED <<verificationLogs, nextLogId>>
            /\ scan' = [status |-> 403, error |-> "Forbidden",
                        securityOfficerId |-> o, ticketId |-> tickets[k].id,
                        action |-> action]
            /\ UNCHANGED tickets
  /\ UNCHANGED securityOfficers

\* a Ticket row is deleted: VerificationLog.ticket is onDelete: Cascade, so
\* the log rows of the ticket go with it
DeleteTicket(k) ==
  /\ tickets' = SelectSeq(tickets, LAMBDA t : t.id # tickets[k].id)
  /\ verificationLogs' =
       SelectSeq(verificationLogs, LAMBDA l : l.ticketId # tickets[k].id)
  /\ UNCHANGED <<securityOfficers, nextLogId, scan>>

\* a SecurityOfficer row is deleted: VerificationLog.securityOfficer is
\* onDelete: Cascade, so the log rows of the officer go with it
DeleteSecurityOfficer(o) ==
  /\ securityOfficers' = [x \in DOMAIN securityOfficers \ {o} |->
                            securityOfficers[x]]
  /\ verificationLogs' =
       SelectSeq(verificationLogs, LAMBDA l : l.securityOfficerId # o)
  /\ UNCHANGED <<tickets, nextLogId, scan>>

Gate ==
  /\ \/ \E o \in DOMAIN securityOfficers, k \in DOMAIN tickets,
           action \in VerificationActions : Verify(o, k, action)
     \/ \E k \in DOMAIN tickets : DeleteTicket(k)
     \/ \E o \in DOMAIN securityOfficers : DeleteSecurityOfficer(o)
  /\ UNCHANGED <<soldCount, soldTickets, totalTickets, orders, credit, now,
                 req, get>>

\* ------------------------------------------------------- the environment
\* the organizer's edit form: eventSchema accepts any totalTickets >= 1 and
\* onSubmit sends it in the update of the event
MinTotalTickets == 1
TotalTicketsChoices == {0, 1}

EditEvent(e) ==
  /\ \E n \in TotalTicketsChoices :
       /\ n >= MinTotalTickets
       /\ totalTickets' = [totalTickets EXCEPT ![e] = n]
  /\ UNCHANGED <<soldCount, soldTickets, orders, tickets, credit, now, req>>
  /\ UNCHANGED <<get, gateVars>>

Next ==
  \/ \E r \in Requests : POST(r)
  \/ \E e \in EventIds : EditEvent(e)

Spec == Init /\ [][Next]_vars

\* the purchases alone, with no organizer at work
NextPurchases == \E r \in Requests : POST(r)

SpecPurchases == Init /\ [][NextPurchases]_vars

\* the purchases one after the other: a request is served while no other
\* request is between its arrival and its response
NextSequential ==
  \E r \in Requests :
    /\ \A q \in Requests \ {r} : req[q].pc \in {"idle", "done"}
    /\ POST(r)

SpecSequential == Init /\ [][NextSequential]_vars

\* the listings alone, over a table of orders that does not change: any
\* table of up to MaxListed orders of the users, oldest first
OrderTables ==
  UNION {{[k \in 1..len |->
             [id |-> k, total |-> 0, status |-> f[k][2], userId |-> f[k][1],
              eventId |-> "e1"]] :
            f \in [1..len -> Users \X OrderStatus]} : len \in 0..MaxListed}

InitListing ==
  /\ soldCount = [t \in TicketTypeIds |-> 0]
  /\ soldTickets = [e \in EventIds |-> 0]
  /\ totalTickets = [e \in EventIds |->
                       IF EventTicketTypes(e) = <<>> THEN 1
                       ELSE SumQuantity(EventTicketTypes(e))]
  /\ orders \in OrderTables
  /\ tickets = <<>>
  /\ now = 0
  /\ credit = [o \in 1..MaxLines |-> 0]
  /\ req = [r \in Requests |-> InitReq]
  /\ get = [g \in Listings |-> InitGet]
  /\ securityOfficers = SecurityOfficer
  /\ verificationLogs = <<>>
  /\ nextLogId = 0
  /\ scan = NoScan

NextListing == \E g \in Listings : GET(g)

\* the venue gate alone, after user u1 bought the 2 tickets of t1 in one
\* order
InitVerification ==
  /\ soldCount = [t \in TicketTypeIds |-> IF t = "t1" THEN 2 ELSE 0]
  /\ soldTickets = [e \in EventIds |-> IF e = "e1" THEN 2 ELSE 0]
  /\ totalTickets = [e \in EventIds |->
                       IF EventTicketTypes(e) = <<>> THEN 1
                       ELSE SumQuantity(EventTicketTypes(e))]
  /\ orders = <<[id |-> 1, total |-> 2 * TicketType["t1"].price,
                 status |-> "PENDING", userId |-> "u1", eventId |-> "e1"]>>
  /\ tickets = TicketRowsOf(
       [i \in 1..2 |->
          [qrCode |-> QRPayload("e1", "u1", 1, i - 1, 0),
           type |-> TicketType["t1"].name, price |-> TicketType["t1"].price,
           eventId |-> "e1", userId |-> "u1", orderId |-> 1,
           ticketTypeId |-> "t1"]], 0)
  /\ now = 0
  /\ credit = [o \in 1..MaxLines |-> IF o = 1 THEN 2 ELSE 0]
  /\ req = [r \in Requests |-> InitReq]
  /\ get = [g \in Listings |-> InitGet]
  /\ securityOfficers = SecurityOfficer
  /\ verificationLogs = <<>>
  /\ nextLogId = 0
  /\ scan = NoScan

SpecVerification == InitVerification /\ [][Gate]_vars

SpecListing == InitListing /\ [][NextListing]_vars

\* one listing and one purchase of a single line item, side by side, over a
\* table that holds at most one earlier order
InitShop ==
  /\ InitListing
  /\ Len(orders) <= 1

NextShop ==
  \/ GET(1)
  \/ POST(1) /\ req'[1].n <= 1

SpecShop == InitShop /\ [][NextShop]_vars

\* ------------------------------------------------------------ vocabulary
Done(r) == req[r].pc = "done"

\* r takes its last step in this transition
Finishes(r) == req[r].pc # "done" /\ req'[r].pc = "done"

OrderRows(id) == {k \in DOMAIN orders : orders[k].id = id}
TicketRows(id) == {k \in DOMAIN tickets : tickets[k].orderId = id}

\* the line items of r that reached an Order: the committed ones and the one
\* the request ended in
OrdersOf(r) == ({req[r].order} \cup {req[r].createdOrders[k] :
                                      k \in DOMAIN req[r].createdOrders}) \ {0}

InsufficientInventory ==
  [status |-> 400, error |-> "Not enough tickets available", orders |-> <<>>]

PlainFailure ==
  [status |-> 500, error |-> "Failed to create order", orders |-> <<>>]

\* no row is written and no counter moves in this transition
LedgerUntouched ==
  UNCHANGED <<soldCount, soldTickets, orders, tickets, credit>>

\* ---------------------------------------------------------------- claims

\* C1: under every interleaving of concurrent purchase requests against the
\* same ticket type, soldCount <= quantity in every reachable state.
C1_NoOversell ==
  \A t \in TicketTypeIds : soldCount[t] <= TicketType[t].quantity

\* C2: when a line item of quantity Q is processed successfully, soldCount
\* was incremented by Q for it and exactly Q Ticket rows reference its new
\* Order.
C2_SuccessfulPurchase ==
  [][\A r \in Requests :
       (req[r].pc = "event.update"
          /\ Len(req'[r].createdOrders) = Len(req[r].createdOrders) + 1)
       => /\ credit'[req[r].order] = req[r].quantity
          /\ Cardinality({k \in DOMAIN tickets' :
                            tickets'[k].orderId = req[r].order})
               = req[r].quantity]_vars

\* C3: a line item whose quantity exceeds the availability of its ticket
\* type (quantity - soldCount, as the availability check reads it) ends the
\* request with InsufficientInventory, and no Order, no Ticket and no counter
\* change is made for it.
C3_InsufficientRejected ==
  [][\A r \in Requests :
       (req[r].pc = "item" /\ req'[r].pc # "item"
          /\ req'[r].ticketTypeObj # ""
          /\ req'[r].quantity > TicketType[req'[r].ticketTypeObj].quantity
                                  - soldCount[req'[r].ticketTypeObj])
       => /\ req'[r].pc = "done"
          /\ req'[r].resp = InsufficientInventory
          /\ req'[r].order = 0
          /\ LedgerUntouched]_vars

\* a request was turned down for a ticket type that an earlier purchase had
\* sold out
C3_Witness ==
  \E r \in Requests :
    /\ Done(r)
    /\ req[r].resp = InsufficientInventory
    /\ req[r].ticketTypeObj # ""
    /\ soldCount[req[r].ticketTypeObj] = TicketType[req[r].ticketTypeObj].quantity
    /\ req[r].quantity = 1

\* C4: once a request has finished, however it ended, each of its line items
\* has Ticket rows if and only if soldCount was incremented for it.
C4_TicketsWithIncrement ==
  \A r \in Requests :
    Done(r) =>
      \A o \in OrdersOf(r) :
        /\ (TicketRows(o) # {} => credit[o] > 0)
        /\ (credit[o] > 0 => TicketRows(o) # {})

\* C5: when generateQRCode fails for a line item, nothing of that line item
\* persists: no Order row, no Ticket row, no inventory increment.
C5_MintFailureLeavesNothing ==
  \A r \in Requests :
    (Done(r) /\ req[r].error = "generateQRCode")
    => /\ OrderRows(req[r].order) = {}
       /\ TicketRows(req[r].order) = {}
       /\ credit[req[r].order] = 0

\* C6: when sendTicketEmail fails after the tickets were persisted, the
\* Order and its Ticket rows remain and the caller gets something other than
\* the plain failure: a partial success naming the order.
C6_DeliveryFailureIsPartialSuccess ==
  \A r \in Requests :
    (Done(r) /\ req[r].error = "sendTicketEmail")
    => /\ OrderRows(req[r].order) # {}
       /\ Cardinality(TicketRows(req[r].order)) = req[r].quantity
       /\ req[r].resp # PlainFailure

\* C7: the response of a finished request holds the Order of every line item
\* that was processed successfully, also when a later line item failed.
C7_ResponseNamesCommittedOrders ==
  \A r \in Requests :
    Done(r) =>
      \A k \in DOMAIN req[r].createdOrders :
        \E j \in DOMAIN req[r].resp.orders :
          req[r].resp.orders[j] = req[r].createdOrders[k]

\* C8: Event.soldTickets <= Event.totalTickets in every reachable state,
\* after any purchases and edits of totalTickets (it already fails under
\* SpecPurchases, where totalTickets is never edited).
C8_SoldWithinTotal ==
  \A e \in EventIds : soldTickets[e] <= totalTickets[e]

\* every code minted so far: the persisted rows and the rows of the requests
\* that are between minting and persisting
RECURSIVE Unpersisted(_)
Unpersisted(S) ==
  IF S = {} THEN <<>>
  ELSE LET r == CHOOSE x \in S : TRUE IN
         (IF req[r].pc \in {"mint", "persist"}
            THEN req[r].ticketsToCreate ELSE <<>>) \o Unpersisted(S \ {r})

Minted == tickets \o Unpersisted(Requests)

\* C9: no two tickets ever minted, across orders, line items and concurrent
\* requests, carry the same credential payload.
C9_CredentialsUnique ==
  \A a, b \in DOMAIN Minted :
    a # b => Minted[a].qrCode # Minted[b].qrCode

\* two persisted tickets of different orders agree on event, user, ticket
\* number and timestamp, and two tickets of one order agree on the timestamp
C9_Witness ==
  /\ \E a, b \in DOMAIN tickets :
       /\ tickets[a].orderId # tickets[b].orderId
       /\ tickets[a].qrCode.eventId = tickets[b].qrCode.eventId
       /\ tickets[a].qrCode.userId = tickets[b].qrCode.userId
       /\ tickets[a].qrCode.ticketNumber = tickets[b].qrCode.ticketNumber
       /\ tickets[a].qrCode.timestamp = tickets[b].qrCode.timestamp
  /\ \E a, b \in DOMAIN tickets :
       /\ a # b
       /\ tickets[a].orderId = tickets[b].orderId
       /\ tickets[a].qrCode.timestamp = tickets[b].qrCode.timestamp

\* C10: a request that is unauthenticated, has no items, or whose line item
\* lacks an eventId, names an unknown event or resolves to no ticket type,
\* ends without an Order or a Ticket and without a counter change for that
\* line item.
C10_ValidationBeforeMutation ==
  [][\A r \in Requests :
       (Finishes(r)
          /\ (\/ req'[r].session = ""
              \/ req'[r].n = 0
              \/ req'[r].eventId \notin EventIds
              \/ req'[r].ticketTypeObj = ""))
       => /\ req'[r].order = 0
          /\ LedgerUntouched]_vars

\* the second line item of a cart was turned down by validation after the
\* first one had been committed
C10_Witness ==
  \E r \in Requests :
    /\ Done(r)
    /\ req[r].resp.status = 404
    /\ req[r].ticketTypeObj = ""
    /\ Len(req[r].createdOrders) = 1
    /\ Len(orders) = 1

\* the calls that create the tickets of a line item: Order creation,
\* credential minting, Ticket persistence
TicketCreation == {"order.create", "generateQRCode", "ticket.createMany"}

\* C11: a request that ended in an inventory failure or in a ticket-creation
\* failure (Order creation, credential minting or Ticket persistence threw)
\* was not answered with the generic 500 failure.
C11_SpecificFailure ==
  \A r \in Requests :
    (Done(r)
       /\ (\/ req[r].error \in TicketCreation
           \/ (req[r].ticketTypeObj # "" /\ req[r].order = 0
                 /\ req[r].error = "")))
    => req[r].resp # PlainFailure

\* C12: a line item of a known event for which no ticket type was resolved
\* (unknown id, unknown name, or an event with no ticket types) ends the
\* request with 404.
C12_UnresolvedIsNotFound ==
  \A r \in Requests :
    (Done(r)
       /\ req[r].eventId \in EventIds
       /\ req[r].ticketTypeObj = ""
       /\ req[r].error = "")
    => req[r].resp.status = 404

\* C13: the total of the Order created for a line item is the price the item
\* supplies, if it supplies one (0 included), else the ticket type's price,
\* times the quantity.
C13_OrderTotal ==
  [][\A r \in Requests :
       (req[r].pc = "create" /\ req'[r].order # 0)
       => orders'[req'[r].order].total
            = ValueOr(req[r].price, TicketType[req[r].ticketTypeObj].price)
                * req[r].quantity]_vars

\* C14: no step of a purchase request, whatever quantity its line item
\* carries, decreases soldCount of a ticket type or soldTickets of an event.
C14_NoDecrement ==
  [][/\ \A t \in TicketTypeIds : soldCount'[t] >= soldCount[t]
     /\ \A e \in EventIds : soldTickets'[e] >= soldTickets[e]]_vars

\* C15: purchases served one after the other, against a ticket type of
\* quantity 2.  With soldCount 0 a line item of 2 passes the availability
\* check, and when that purchase is the first to succeed soldCount is 2 and
\* nothing is available; from then on a line item of 1 for that ticket type
\* ends its request with InsufficientInventory and soldCount stays 2.
C15_SoldOutScenario ==
  [][\A r \in Requests, t \in TicketTypeIds :
       TicketType[t].quantity = 2 =>
         /\ (req[r].pc = "item" /\ req'[r].pc # "item"
                /\ soldCount[t] = 0
                /\ req'[r].ticketTypeObj = t /\ req'[r].quantity = 2
                /\ req'[r].error = "")
            => req'[r].pc = "create"
         /\ (Finishes(r) /\ req'[r].resp.status = 201 /\ req'[r].n = 1
                /\ req'[r].ticketTypeObj = t /\ req'[r].quantity = 2
                /\ Len(orders') = 1)
            => /\ soldCount'[t] = 2
               /\ TicketType[t].quantity - soldCount'[t] = 0
         /\ (req[r].pc = "item" /\ req'[r].pc # "item"
                /\ soldCount[t] = 2
                /\ req'[r].ticketTypeObj = t /\ req'[r].quantity = 1
                /\ req'[r].error = "")
            => /\ req'[r].resp = InsufficientInventory
               /\ soldCount'[t] = 2
               /\ LedgerUntouched]_vars

\* one request bought the 2 tickets of t1, and the next one, asking for 1, was
\* turned down
C15_Witness ==
  \E r, q \in Requests :
    /\ Done(r) /\ req[r].resp.status = 201
    /\ req[r].ticketTypeObj = "t1" /\ req[r].quantity = 2
    /\ Done(q) /\ req[q].resp = InsufficientInventory
    /\ req[q].ticketTypeObj = "t1" /\ req[q].quantity = 1
    /\ soldCount["t1"] = 2
    /\ Len(orders) = 1

C17_LogAppendOnly ==
  [][/\ \A k \in DOMAIN verificationLogs :
          \E j \in DOMAIN verificationLogs' :
            verificationLogs'[j] = verificationLogs[k]
     /\ Len(verificationLogs') >= Len(verificationLogs)]_vars

\* a verification action answers in this transition
Verifies == nextLogId' # nextLogId \/ scan' # scan

\* C18: ENTRY asked by an officer of another event than the ticket's is
\* answered Forbidden and leaves every ticket as it was; a permitted
\* verification action adds exactly one VerificationLog row, for its ticket,
\* officer and action, after the rows that were there.
C18_ForbiddenAndLogged ==
  [][Verifies =>
       /\ (scan'.action = "ENTRY"
             /\ \E k \in DOMAIN tickets :
                  /\ tickets[k].id = scan'.ticketId
                  /\ securityOfficers[scan'.securityOfficerId].eventId
                       # tickets[k].eventId)
          => /\ scan'.status = 403
             /\ scan'.error = "Forbidden"
             /\ tickets' = tickets
       /\ scan'.status = 200
          => /\ Len(verificationLogs') = Len(verificationLogs) + 1
             /\ SubSeq(verificationLogs', 1, Len(verificationLogs))
                  = verificationLogs
             /\ LET row == verificationLogs'[Len(verificationLogs')] IN
                  /\ row.ticketId = scan'.ticketId
                  /\ row.securityOfficerId = scan'.securityOfficerId
                  /\ row.action = scan'.action]_vars

\* officer o2, of event e2, was refused ENTRY on a ticket of event e1 after
\* officer o1 had been let do it
C18_Witness ==
  /\ scan.status = 403
  /\ scan.action = "ENTRY"
  /\ scan.securityOfficerId = "o2"
  /\ \E k \in DOMAIN tickets :
       tickets[k].id = scan.ticketId /\ tickets[k].eventId = "e1"
  /\ \E j \in DOMAIN verificationLogs :
       /\ verificationLogs[j].securityOfficerId = "o1"
       /\ verificationLogs[j].action = "ENTRY"
       /\ verificationLogs[j].details = ""

\* the steps of a line item, each with the steps that may follow it; "done"
\* (a response) may follow any of them
StepOrder ==
  {<<"idle", "item">>, <<"item", "create">>, <<"create", "mint">>,
   <<"create", "persist">>, <<"mint", "mint">>, <<"mint", "persist">>,
   <<"persist", "email">>, <<"email", "ticketType.update">>,
   <<"ticketType.update", "event.update">>, <<"event.update", "item">>}

\* C19: a line item goes through availability check, Order creation,
\* minting, Ticket persistence, delivery, soldCount increment, soldTickets
\* increment, in this order, and each table or counter is written in its
\* step only; so when soldCount is incremented for a line item its tickets
\* are in the Ticket table, and every Ticket row references an Order row.
C19_StepOrder ==
  [][/\ \A r \in Requests :
          /\ req'[r] # req[r] =>
               \/ req'[r].pc = "done"
               \/ <<req[r].pc, req'[r].pc>> \in StepOrder
          /\ (req[r].pc = "ticketType.update" /\ req'[r].pc = "event.update")
             => Cardinality(TicketRows(req[r].order))
                  = IF req[r].quantity > 0 THEN req[r].quantity ELSE 0
     /\ orders' # orders =>
          \E r \in Requests : req[r].pc = "create" /\ req'[r] # req[r]
     /\ tickets' # tickets =>
          \E r \in Requests : req[r].pc = "persist" /\ req'[r] # req[r]
     /\ soldCount' # soldCount =>
          \E r \in Requests : req[r].pc = "ticketType.update" /\ req'[r] # req[r]
     /\ soldTickets' # soldTickets =>
          \E r \in Requests : req[r].pc = "event.update" /\ req'[r] # req[r]
     /\ \A o \in DOMAIN credit :
          credit'[o] > 0 =>
            Cardinality({k \in DOMAIN tickets' : tickets'[k].orderId = o})
              = credit'[o]
     /\ \A k \in DOMAIN tickets' :
          \E j \in DOMAIN orders' : orders'[j].id = tickets'[k].orderId]_vars

\* soldCount has been incremented for a line item of 2 whose 2 tickets are
\* in the table, while another request is minting
C19_Witness ==
  \E r, q \in Requests :
    /\ req[r].pc = "event.update"
    /\ req[r].quantity = 2
    /\ Cardinality(TicketRows(req[r].order)) = 2
    /\ credit[req[r].order] = 2
    /\ req[q].pc = "mint"

\* C20: a request whose line item k failed is over: it takes no further
\* step, so no later line item is processed and every Order row belongs to
\* a line item up to k.  The failing step and every later step of any
\* request leave the Order rows, the Ticket rows and the increments of the
\* line items 1..k-1 as they were committed.
C20_NoRollbackNoContinuation ==
  [][/\ \A r \in Requests :
          /\ (req'[r].error # "" \/ req'[r].resp.status \notin {0, 201})
             => req'[r].pc = "done"
          /\ Done(r) => req'[r] = req[r]
          /\ (Finishes(r) /\ req'[r].resp.status # 201)
             => /\ LedgerUntouched
                /\ req'[r].createdOrders = req[r].createdOrders
                /\ Len(req'[r].createdOrders) = req'[r].idx
                /\ Cardinality(OrdersOf(r)) <= req'[r].idx + 1
          /\ \A k \in DOMAIN req[r].createdOrders :
               LET o == req[r].createdOrders[k] IN
                 /\ credit'[o] = credit[o]
                 /\ {tickets'[j] : j \in {i \in DOMAIN tickets' :
                                            tickets'[i].orderId = o}}
                      = {tickets[j] : j \in TicketRows(o)}
     /\ \A k \in DOMAIN orders :
          k \in DOMAIN orders' /\ orders'[k] = orders[k]
     /\ \A k \in DOMAIN tickets :
          k \in DOMAIN tickets' /\ tickets'[k] = tickets[k]
     /\ \A j \in DOMAIN orders' :
          \E r \in Requests :
            orders'[j].id \in ({req'[r].order} \cup
               {req'[r].createdOrders[k] : k \in DOMAIN req'[r].createdOrders})
    ]_vars

\* the second line item of a cart was refused for lack of tickets after the
\* first one, of 2, had been committed with its Order, tickets and increment
C20_Witness ==
  \E r \in Requests :
    /\ Done(r)
    /\ req[r].resp = InsufficientInventory
    /\ req[r].n = 2
    /\ Len(req[r].createdOrders) = 1
    /\ credit[req[r].createdOrders[1]] = 2
    /\ Cardinality(TicketRows(req[r].createdOrders[1])) = 2
    /\ OrderRows(req[r].createdOrders[1]) # {}

\* no purchase request is between its arrival and its response
Quiescent == \A r \in Requests : req[r].pc \in {"idle", "done"}

RECURSIVE SumSoldCount(_)
SumSoldCount(types) ==
  IF types = <<>> THEN 0
  ELSE soldCount[Head(types)] + SumSoldCount(Tail(types))

\* C21: whenever no purchase request is in flight, soldTickets of every
\* event is the sum of soldCount over the ticket types of the event.
C21_SoldTicketsIsSum ==
  Quiescent =>
    \A e \in EventIds : soldTickets[e] = SumSoldCount(EventTicketTypes(e))

\* C22: whenever no purchase request is in flight, every ticket type has as
\* many Ticket rows referencing it as its soldCount says.
C22_TicketsMatchSoldCount ==
  Quiescent =>
    \A t \in TicketTypeIds :
      Cardinality({k \in DOMAIN tickets : tickets[k].ticketTypeId = t})
        = soldCount[t]

\* C23: the ticket type a line item resolved to, and the ticket type of
\* every Ticket row, belongs to the event of the line item or ticket; every
\* Ticket row references an Order row of the same event and the same user,
\* and that Order was created by a request of that authenticated user.
C23_TicketBinding ==
  /\ \A r \in Requests :
       req[r].ticketTypeObj # ""
         => TicketType[req[r].ticketTypeObj].eventId = req[r].eventId
  /\ \A k \in DOMAIN tickets :
       /\ TicketType[tickets[k].ticketTypeId].eventId = tickets[k].eventId
       /\ tickets[k].type = TicketType[tickets[k].ticketTypeId].name
       /\ tickets[k].userId \in Users
       /\ \E j \in DOMAIN orders :
            /\ orders[j].id = tickets[k].orderId
            /\ orders[j].eventId = tickets[k].eventId
            /\ orders[j].userId = tickets[k].userId
       /\ \E r \in Requests :
            /\ tickets[k].orderId \in OrdersOf(r)
            /\ req[r].session = tickets[k].userId

\* tickets have been issued, and a line item for event e2 that named a
\* ticket type by id was refused: e2 has no ticket type of that id
C23_Witness ==
  /\ Len(tickets) > 0
  /\ \E r \in Requests :
       /\ Done(r)
       /\ req[r].eventId = "e2"
       /\ req[r].resp.status = 404
       /\ req[r].resp.error = "Ticket type not found"

\* what a listing of user u with this query returns over the table as it
\* is: the page of orders and the total
ListingView(u, status, limit, page) ==
  <<TakeSkip(WithTickets(Desc(Where(u, status))), limit, page),
    Len(Where(u, status))>>

\* C24: a listing that has answered without a session answered 401 with no
\* orders; the orders a listing has fetched or returned are orders of its
\* caller (and of the status asked for), with tickets of its caller; and a
\* step of a purchase request of one user leaves unchanged what any listing
\* of any other user returns, for every status filter, page and limit.
C24_OnlyCallersOrders ==
  [][/\ \A g \in Listings :
          /\ (get'[g].pc = "done" /\ get'[g].session = "")
             => (get'[g].resp.status = 401 /\ get'[g].resp.orders = <<>>)
          /\ get'[g].resp.status = 401 => get'[g].resp.orders = <<>>
          /\ \A os \in {get'[g].orders, get'[g].resp.orders} :
               \A k \in DOMAIN os :
                 /\ os[k].userId = get'[g].session
                 /\ get'[g].status # "" => os[k].status = get'[g].status
                 /\ \A i \in DOMAIN os[k].tickets :
                      os[k].tickets[i].userId = get'[g].session
     /\ \A r \in Requests, u \in Users :
          (req'[r] # req[r] /\ req'[r].session # u
             /\ (orders' # orders \/ tickets' # tickets))
          => \A status \in OrderStatus \cup {""},
                limit \in {1, DefaultLimit}, page \in {DefaultPage, 2} :
               UNCHANGED ListingView(u, status, limit, page)]_vars

\* a listing returned the one order of its caller while the table also
\* holds an order that a purchase request of the other user created
C24_Witness ==
  \E g \in Listings, r \in Requests :
    /\ get[g].pc = "done"
    /\ get[g].resp.status = 200
    /\ Len(get[g].resp.orders) = 1
    /\ req[r].order # 0
    /\ req[r].session # get[g].session
    /\ Len(orders) = 2
    /\ get[g].resp.pagination.total = 1

=============================================================================
